---------------------------- MODULE Spec2Model ----------------------------
(***************************************************************************)
(* Model of boing.py: the Amiga Boing Ball rendered to an SVG document.    *)
(*                                                                         *)
(* Number representation.  The program computes in IEEE doubles; TLC has   *)
(* only integers.  Lengths are fixed-point integers counting 1/Unit of a   *)
(* pixel, angles count 1/PI of a half turn (so one angle unit is one       *)
(* degree), sines and cosines are integers scaled by One and come from a   *)
(* table of math.sin rounded to 1/One.  A product with a sine or cosine is *)
(* rounded to the nearest length unit, as a floating-point product is      *)
(* rounded to the nearest double.                                          *)
(*                                                                         *)
(* Where the two arithmetics part.  A triangle whose normal is exactly     *)
(* perpendicular to the view direction in real arithmetic (collapsed at a  *)
(* pole, or edge-on) has a dot product of 0 or of rounding size in the     *)
(* model and of magnitude about 1e-11, of either sign, in the program; the *)
(* two may decide such a triangle differently.  Every other triangle of    *)
(* the configurations below is decided alike by both.                      *)
(*                                                                         *)
(* The statement at line 141 is an assert; the model runs the program as   *)
(* its shebang line does, with assertions enabled.                         *)
(***************************************************************************)
EXTENDS Integers, Sequences, FiniteSets, TLC

VARIABLES
    LAT_BANDS, LONG_GORES,          \* sphere tessellation counts
    SPIN_DEG, TILT_DEG,             \* orientation, degrees
    DRAW_BACKGROUND, DRAW_GRID,     \* layer toggles
    GRID_CELLS_W, GRID_CELLS_H,     \* grid cell counts
    GRID_CELL_W, GRID_CELL_H,       \* grid cell size, length units
    GRID_ORIGIN_X, GRID_ORIGIN_Y,   \* grid origin, length units
    pc,                             \* position in main / build_boing_svg
    svg,                            \* the list `svg` of build_boing_svg
    i, j, k,                        \* loop indices: band, gore, triangle of the cell
    tested,                         \* history: every triangle the loop has tested
    err,                            \* exception that left main, or "none"
    file                            \* OUT_SVG_FILENAME: whether main wrote it, and what

config == <<LAT_BANDS, LONG_GORES, SPIN_DEG, TILT_DEG, DRAW_BACKGROUND, DRAW_GRID,
            GRID_CELLS_W, GRID_CELLS_H, GRID_CELL_W, GRID_CELL_H,
            GRID_ORIGIN_X, GRID_ORIGIN_Y>>

vars == <<config, pc, svg, i, j, k, tested, err, file>>

-----------------------------------------------------------------------------
(* Bounds of the model *)

MaxBands == 4          \* Spec: LAT_BANDS ranges over 1..MaxBands
MaxGores == 8          \* Spec: LONG_GORES ranges over 1..MaxGores
GridMaxCells == 10     \* SpecGrid: grid cell counts range over 1..GridMaxCells
GridMaxCount == 2      \* SpecGrid: band and gore counts range over 1..GridMaxCount

Angles == {0, 16, 30, 90}     \* Spec: spin and tilt, degrees
GridAngles == {0, 30}         \* SpecGrid: spin, degrees
CellSizes == {<<50, 50>>, <<20, 40>>}     \* SpecGrid: grid cell (width, height), pixels
Origins == {<<0, 0>>, <<-25, 10>>}        \* SpecGrid: grid origin (x, y), pixels

-----------------------------------------------------------------------------
(* Number representation *)

SinTab ==
    << 0, 175, 349, 523, 698, 872, 1045, 1219, 1392, 1564,
       1736, 1908, 2079, 2250, 2419, 2588, 2756, 2924, 3090, 3256,
       3420, 3584, 3746, 3907, 4067, 4226, 4384, 4540, 4695, 4848,
       5000, 5150, 5299, 5446, 5592, 5736, 5878, 6018, 6157, 6293,
       6428, 6561, 6691, 6820, 6947, 7071, 7193, 7314, 7431, 7547,
       7660, 7771, 7880, 7986, 8090, 8192, 8290, 8387, 8480, 8572,
       8660, 8746, 8829, 8910, 8988, 9063, 9135, 9205, 9272, 9336,
       9397, 9455, 9511, 9563, 9613, 9659, 9703, 9744, 9781, 9816,
       9848, 9877, 9903, 9925, 9945, 9962, 9976, 9986, 9994, 9998,
       10000 >>

PI == Len(SinTab) - 1 + Len(SinTab) - 1

One == SinTab[Len(SinTab)]

Unit == One \div 1000

\* n / d rounded to the nearest integer, halves away from zero (d > 0)
RDiv(n, d) ==
    IF n >= 0 THEN (2 * n + d) \div (2 * d)
              ELSE -((2 * (-n) + d) \div (2 * d))

\* product of a length (or a count) and a sine or cosine
FMul(a, b) == RDiv(a * b, One)

Sin(a) ==
    LET m == a % (2 * PI)
        h == PI \div 2
    IN  IF m <= h THEN SinTab[m + 1]
        ELSE IF m <= PI THEN SinTab[PI - m + 1]
        ELSE IF m <= PI + h THEN -SinTab[m - PI + 1]
        ELSE -SinTab[2 * PI - m + 1]

Cos(a) == Sin(a + PI \div 2)

-----------------------------------------------------------------------------
(* Configuration constants *)

CANVAS_W == 500
CANVAS_H == 500

COLOR_RED == "#ff0000"
COLOR_WHITE == "#ffffff"
BACKGROUND_COLOR == "#aaaaaa"
GRID_COLOR == "#660066"

Min(a, b) == IF a <= b THEN a ELSE b

RADIUS == (Min(CANVAS_W, CANVAS_H) * Unit) \div 2
CX == (CANVAS_W * Unit) \div 2
CY == (CANVAS_H * Unit) \div 2

STROKE_WIDTH == 0 * Unit
STROKE_OVERRIDE == "None"
GRID_STROKE_WIDTH == 1 * Unit

-----------------------------------------------------------------------------
(* Vector math *)

deg2rad(a) == (a * PI) \div 180

rot_z(p, a_deg) ==
    LET a == deg2rad(a_deg)
        c == Cos(a)
        s == Sin(a)
    IN  <<FMul(c, p[1]) - FMul(s, p[2]), FMul(s, p[1]) + FMul(c, p[2]), p[3]>>

rot_y(p, a_deg) ==
    LET a == deg2rad(a_deg)
        c == Cos(a)
        s == Sin(a)
    IN  <<FMul(c, p[1]) + FMul(s, p[3]), p[2], FMul(-s, p[1]) + FMul(c, p[3])>>

\* mutant: the y component with its two products exchanged
cross_y_exchanged(a, b) ==
    <<a[2] * b[3] - a[3] * b[2],
      a[1] * b[3] - a[3] * b[1],
      a[1] * b[2] - a[2] * b[3]>>

cross(a, b) ==
    <<a[2] * b[3] - a[3] * b[2],
      a[3] * b[1] - a[1] * b[3],
      a[1] * b[2] - a[2] * b[3]>>

sub(a, b) == <<a[1] - b[1], a[2] - b[2], a[3] - b[3]>>

dot(a, b) == a[1] * b[1] + a[2] * b[2] + a[3] * b[3]

sph_to_cart(lat, lon, r) ==
    LET cl == Cos(lat)
    IN  <<FMul(FMul(r, cl), Cos(lon)), FMul(FMul(r, cl), Sin(lon)), FMul(r, Sin(lat))>>

project_to_svg(p) == <<CX + p[1], CY - p[3]>>

\* "{x:.3f}": the number in thousandths
Fmt3(x) == RDiv(x * 1000, Unit)

polygon_svg(points2d, fill, stroke_width, stroke_color) ==
    [kind |-> "polygon",
     points |-> [n \in 1..Len(points2d) |-> <<Fmt3(points2d[n][1]), Fmt3(points2d[n][2])>>],
     fill |-> fill,
     stroke |-> stroke_color,
     stroke_width |-> Fmt3(stroke_width)]

-----------------------------------------------------------------------------
(* Grid *)

\* mutant: both line loops start at 0 instead of 1
grid_svg_from_zero ==
    LET x0 == GRID_ORIGIN_X
        y0 == GRID_ORIGIN_Y
        w == GRID_CELLS_W * GRID_CELL_W
        h == GRID_CELLS_H * GRID_CELL_H
        vertical == [c \in 1..GRID_CELLS_W |->
                        LET x == x0 + (c - 1) * GRID_CELL_W
                        IN  [x1 |-> Fmt3(x), y1 |-> Fmt3(y0), x2 |-> Fmt3(x), y2 |-> Fmt3(y0 + h)]]
        horizontal == [r \in 1..GRID_CELLS_H |->
                        LET y == y0 + (r - 1) * GRID_CELL_H
                        IN  [x1 |-> Fmt3(x0), y1 |-> Fmt3(y), x2 |-> Fmt3(x0 + w), y2 |-> Fmt3(y)]]
    IN  [kind |-> "g",
         stroke |-> GRID_COLOR,
         stroke_width |-> GRID_STROKE_WIDTH,
         fill |-> "none",
         rect |-> [x |-> Fmt3(x0), y |-> Fmt3(y0), width |-> Fmt3(w), height |-> Fmt3(h)],
         lines |-> vertical \o horizontal]

grid_svg ==
    LET x0 == GRID_ORIGIN_X
        y0 == GRID_ORIGIN_Y
        w == GRID_CELLS_W * GRID_CELL_W
        h == GRID_CELLS_H * GRID_CELL_H
        vertical == [c \in 1..(GRID_CELLS_W - 1) |->
                        LET x == x0 + c * GRID_CELL_W
                        IN  [x1 |-> Fmt3(x), y1 |-> Fmt3(y0), x2 |-> Fmt3(x), y2 |-> Fmt3(y0 + h)]]
        horizontal == [r \in 1..(GRID_CELLS_H - 1) |->
                        LET y == y0 + r * GRID_CELL_H
                        IN  [x1 |-> Fmt3(x0), y1 |-> Fmt3(y), x2 |-> Fmt3(x0 + w), y2 |-> Fmt3(y)]]
    IN  [kind |-> "g",
         stroke |-> GRID_COLOR,
         stroke_width |-> GRID_STROKE_WIDTH,
         fill |-> "none",
         rect |-> [x |-> Fmt3(x0), y |-> Fmt3(y0), width |-> Fmt3(w), height |-> Fmt3(h)],
         lines |-> vertical \o horizontal]

-----------------------------------------------------------------------------
(* build_boing_svg: the pieces of its body *)

\* mutant: only the band count is checked
CountsEvenBandsOnly == LAT_BANDS % 2 = 0

CountsEven == LAT_BANDS % 2 = 0 /\ LONG_GORES % 2 = 0

lats == [n \in 1..(LAT_BANDS + 1) |-> (-(PI \div 2)) + RDiv((n - 1) * PI, LAT_BANDS)]

lons == [n \in 1..(LONG_GORES + 1) |-> RDiv((n - 1) * 2 * PI, LONG_GORES)]

\* mutant: tilt first, spin second
xform_tilt_first(v) == rot_z(rot_y(v, TILT_DEG), SPIN_DEG)

xform(v) == rot_y(rot_z(v, SPIN_DEG), TILT_DEG)

\* mutant: the camera looks along +Y
view_dir_reversed == <<0, 1, 0>>

view_dir == <<0, -1, 0>>

BandRange == 0..(LAT_BANDS - 1)

\* mutant: the last gore, the one that closes the seam, is left out
GoreRangeShort == 0..(LONG_GORES - 2)

GoreRange == 0..(LONG_GORES - 1)

\* the untransformed corners of the two triangles of cell (bi, gj)
corners(bi, gj) ==
    LET lat0 == lats[bi + 1]
        lat1 == lats[bi + 2]
        lon0 == lons[gj + 1]
        lon1 == lons[gj + 2]
        v00 == sph_to_cart(lat0, lon0, RADIUS)
        v10 == sph_to_cart(lat1, lon0, RADIUS)
        v11 == sph_to_cart(lat1, lon1, RADIUS)
        v01 == sph_to_cart(lat0, lon1, RADIUS)
    IN  << <<v00, v10, v11>>, <<v00, v11, v01>> >>

\* the list `tris` of cell (bi, gj)
tris(bi, gj) ==
    [t \in 1..2 |-> [n \in 1..3 |-> xform(corners(bi, gj)[t][n])]]

\* mutant: the fill alternates by band only
FillByBand(bi, gj) == IF bi % 2 = 0 THEN COLOR_RED ELSE COLOR_WHITE

Fill(bi, gj) == IF (bi + gj) % 2 = 0 THEN COLOR_RED ELSE COLOR_WHITE

StrokeColor(fill) == IF STROKE_OVERRIDE # "None" THEN STROKE_OVERRIDE ELSE fill

Normal(t) == cross(sub(t[2], t[1]), sub(t[3], t[1]))

\* mutant: an edge-on triangle is kept
FrontFacingOrEdgeOn(n) == dot(n, view_dir) <= 0

FrontFacing(n) == dot(n, view_dir) < 0

-----------------------------------------------------------------------------
(* Initial states *)

NoFile == [written |-> FALSE, content |-> <<>>]

InitRun ==
    /\ pc = "check"
    /\ svg = <<>>
    /\ i = 0 /\ j = 0 /\ k = 0
    /\ tested = <<>>
    /\ err = "none"
    /\ file = NoFile

\* The sphere parameters vary; the grid has the values the source gives it.
Init ==
    /\ LAT_BANDS \in 1..MaxBands
    /\ LONG_GORES \in 1..MaxGores
    /\ SPIN_DEG \in Angles
    /\ TILT_DEG \in Angles
    /\ DRAW_BACKGROUND \in BOOLEAN
    /\ DRAW_GRID \in BOOLEAN
    /\ GRID_CELLS_W = 10
    /\ GRID_CELLS_H = 10
    /\ GRID_CELL_W = 50 * Unit
    /\ GRID_CELL_H = 50 * Unit
    /\ GRID_ORIGIN_X = CX - (GRID_CELLS_W * GRID_CELL_W) \div 2
    /\ GRID_ORIGIN_Y = CY - (GRID_CELLS_H * GRID_CELL_H) \div 2
    /\ InitRun

\* The grid parameters vary; the sphere is small.
InitGrid ==
    /\ LAT_BANDS \in 1..GridMaxCount
    /\ LONG_GORES \in 1..GridMaxCount
    /\ SPIN_DEG \in GridAngles
    /\ TILT_DEG = 16
    /\ DRAW_BACKGROUND \in BOOLEAN
    /\ DRAW_GRID \in BOOLEAN
    /\ GRID_CELLS_W \in 1..GridMaxCells
    /\ GRID_CELLS_H \in 1..GridMaxCells
    /\ \E s \in CellSizes : GRID_CELL_W = s[1] * Unit /\ GRID_CELL_H = s[2] * Unit
    /\ \E o \in Origins : GRID_ORIGIN_X = o[1] * Unit /\ GRID_ORIGIN_Y = o[2] * Unit
    /\ InitRun

-----------------------------------------------------------------------------
(* Actions *)

\* line 141, the counts are even: the statement passes
CheckCounts ==
    /\ pc = "check"
    /\ CountsEven
    /\ pc' = "open"
    /\ UNCHANGED <<config, svg, i, j, k, tested, err, file>>

\* line 141, a count is odd: AssertionError leaves build_boing_svg and main
CountsRejected ==
    /\ pc = "check"
    /\ ~CountsEven
    /\ err' = "AssertionError"
    /\ pc' = "raised"
    /\ UNCHANGED <<config, svg, i, j, k, tested, file>>

\* lines 151-152
AppendSvgOpen ==
    /\ pc = "open"
    /\ svg' = <<[kind |-> "svg", width |-> CANVAS_W, height |-> CANVAS_H]>>
    /\ pc' = "background"
    /\ UNCHANGED <<config, i, j, k, tested, err, file>>

\* lines 154-155
AppendBackground ==
    /\ pc = "background"
    /\ svg' = IF DRAW_BACKGROUND
              THEN Append(svg, [kind |-> "rect", x |-> 0, y |-> 0, width |-> CANVAS_W,
                                height |-> CANVAS_H, fill |-> BACKGROUND_COLOR])
              ELSE svg
    /\ pc' = "grid"
    /\ UNCHANGED <<config, i, j, k, tested, err, file>>

\* mutant: the grid goes in right behind the svg opening, under the background
AppendGridFirst ==
    /\ pc = "grid"
    /\ svg' = IF DRAW_GRID THEN <<svg[1], grid_svg>> \o Tail(svg) ELSE svg
    /\ pc' = "facets"
    /\ UNCHANGED <<config, i, j, k, tested, err, file>>

\* lines 157-158
AppendGrid ==
    /\ pc = "grid"
    /\ svg' = IF DRAW_GRID THEN Append(svg, grid_svg) ELSE svg
    /\ pc' = "facets"
    /\ UNCHANGED <<config, i, j, k, tested, err, file>>

\* lines 161-188: one iteration of the innermost loop, triangle k of cell (i, j)
Facet ==
    /\ pc = "facets"
    /\ i \in BandRange
    /\ LET t == tris(i, j)[k + 1]
           fill == Fill(i, j)
           stroke_color == StrokeColor(fill)
           n == Normal(t)
           keep == FrontFacing(n)
           pts2d == <<project_to_svg(t[1]), project_to_svg(t[2]), project_to_svg(t[3])>>
       IN  /\ svg' = IF keep
                     THEN Append(svg, polygon_svg(pts2d, fill, STROKE_WIDTH, stroke_color))
                     ELSE svg
           /\ tested' = Append(tested,
                  [i |-> i, j |-> j, k |-> k,
                   v |-> corners(i, j)[k + 1], w |-> t, n |-> n, fill |-> fill,
                   at |-> IF keep THEN Len(svg) + 1 ELSE 0])
    /\ IF k = 0
       THEN /\ k' = 1
            /\ UNCHANGED <<i, j>>
       ELSE IF (j + 1) \in GoreRange
            THEN /\ j' = j + 1
                 /\ k' = 0
                 /\ UNCHANGED i
            ELSE /\ i' = i + 1
                 /\ j' = 0
                 /\ k' = 0
    /\ UNCHANGED <<config, pc, err, file>>

\* lines 190-191: the loops are exhausted
AppendSvgClose ==
    /\ pc = "facets"
    /\ i \notin BandRange
    /\ svg' = Append(svg, [kind |-> "/svg"])
    /\ pc' = "return"
    /\ UNCHANGED <<config, i, j, k, tested, err, file>>

\* lines 195-197: main writes the content
MainWrite ==
    /\ pc = "return"
    /\ file' = [written |-> TRUE, content |-> svg]
    /\ pc' = "done"
    /\ UNCHANGED <<config, svg, i, j, k, tested, err>>

\* line 195: open() fails, OSError leaves main
MainWriteFails ==
    /\ pc = "return"
    /\ err' = "OSError"
    /\ pc' = "raised"
    /\ UNCHANGED <<config, svg, i, j, k, tested, file>>

Next ==
    \/ CheckCounts
    \/ CountsRejected
    \/ AppendSvgOpen
    \/ AppendBackground
    \/ AppendGrid
    \/ Facet
    \/ AppendSvgClose
    \/ MainWrite
    \/ MainWriteFails

Spec == Init /\ [][Next]_vars

SpecGrid == InitGrid /\ [][Next]_vars

-----------------------------------------------------------------------------
(* Vocabulary of the properties *)

Entries == {tested[n] : n \in 1..Len(tested)}

Polygons == {n \in 1..Len(svg) : svg[n].kind = "polygon"}

\* build_boing_svg has returned its document
Finished == pc \in {"return", "done"} \/ err = "OSError"

\* the statements that append the background and the grid are behind
AfterLayers == pc = "facets" \/ Finished

BothEven == LAT_BANDS % 2 = 0 /\ LONG_GORES % 2 = 0

\* the two edge vectors b - a and c - a of a tested triangle
Edge1(e) == <<e.w[2][1] - e.w[1][1], e.w[2][2] - e.w[1][2], e.w[2][3] - e.w[1][3]>>
Edge2(e) == <<e.w[3][1] - e.w[1][1], e.w[3][2] - e.w[1][2], e.w[3][3] - e.w[1][3]>>

\* the cross product of the textbooks
StdCross(a, b) ==
    <<a[2] * b[3] - a[3] * b[2],
      a[3] * b[1] - a[1] * b[3],
      a[1] * b[2] - a[2] * b[1]>>

Inner(a, b) == a[1] * b[1] + a[2] * b[2] + a[3] * b[3]

\* the canvas point of a transformed vertex, in thousandths of a pixel
Canvas(p) == <<((CANVAS_W * 1000) \div 2) + (p[1] * 1000) \div Unit,
               ((CANVAS_H * 1000) \div 2) - (p[3] * 1000) \div Unit>>

-----------------------------------------------------------------------------
C2_EmittedIffNegativeDot ==
    /\ \A e \in Entries :
          LET d == Inner(cross(Edge1(e), Edge2(e)), <<0, -1, 0>>)
          IN  /\ (e.at # 0) <=> (d < 0)
              /\ d = 0 => e.at = 0
              /\ e.at # 0 =>
                    /\ e.at \in Polygons
                    /\ svg[e.at].points = <<Canvas(e.w[1]), Canvas(e.w[2]), Canvas(e.w[3])>>
    /\ Polygons = {e.at : e \in Entries} \ {0}

C2_Witness ==
    /\ \E e \in Entries : Inner(cross(Edge1(e), Edge2(e)), <<0, -1, 0>>) = 0 /\ e.at = 0
    /\ \E e \in Entries : Inner(cross(Edge1(e), Edge2(e)), <<0, -1, 0>>) < 0 /\ e.at \in Polygons
    /\ \E e \in Entries : Inner(cross(Edge1(e), Edge2(e)), <<0, -1, 0>>) > 0 /\ e.at = 0

-----------------------------------------------------------------------------
\* the two bands that touch the equator
EquatorBands == {LAT_BANDS \div 2 - 1, LAT_BANDS \div 2}

\* two corners of the triangle coincide (at a pole)
Collapsed(e) == e.w[1] = e.w[2] \/ e.w[2] = e.w[3] \/ e.w[1] = e.w[3]

-----------------------------------------------------------------------------
(* C4: when the loops end exactly 2*B*G triangles have been tested, each   *)
(* triangle (band, gore, 0 or 1) once; at every moment each tested         *)
(* triangle has at most one polygon, so the polygons number between 0 and  *)
(* the triangles tested, at most 2*B*G.                                    *)
C4_TwoTrianglesPerCell ==
    /\ Len(tested) <= 2 * LAT_BANDS * LONG_GORES
    /\ Cardinality(Polygons) <= Len(tested)
    /\ \A m, n \in 1..Len(tested) :
          (m # n /\ tested[m].at # 0) => tested[m].at # tested[n].at
    /\ Finished =>
          /\ Len(tested) = 2 * LAT_BANDS * LONG_GORES
          /\ {<<e.i, e.j, e.k>> : e \in Entries}
                = (0..(LAT_BANDS - 1)) \X (0..(LONG_GORES - 1)) \X {0, 1}
          /\ Cardinality(Polygons) <= 2 * LAT_BANDS * LONG_GORES

C4_Witness ==
    /\ pc = "done"
    /\ LAT_BANDS = 4 /\ LONG_GORES = 6
    /\ Len(tested) = 48
    /\ Cardinality(Polygons) > 0
    /\ Cardinality(Polygons) < 48

-----------------------------------------------------------------------------
(* C5: in a finished run the two triangles of a cell have one fill; cells  *)
(* adjacent in band (same gore) or adjacent in gore modulo G (same band,   *)
(* seam included) have different fills; cells two apart in one index have  *)
(* the same fill; the fill is red iff band + gore is even; and a polygon   *)
(* carries the fill of its triangle.                                       *)
C5_Checkerboard ==
    Finished =>
        /\ \A e, f \in Entries :
              /\ (e.i = f.i /\ e.j = f.j) => e.fill = f.fill
              /\ (e.j = f.j /\ f.i = e.i + 1) => e.fill # f.fill
              /\ (e.i = f.i /\ f.j = (e.j + 1) % LONG_GORES) => e.fill # f.fill
              /\ (e.j = f.j /\ f.i = e.i + 2) => e.fill = f.fill
              /\ (e.i = f.i /\ f.j = e.j + 2) => e.fill = f.fill
        /\ \A e \in Entries :
              /\ e.fill = "#ff0000" <=> (e.i + e.j) % 2 = 0
              /\ e.fill \in {"#ff0000", "#ffffff"}
              /\ e.at # 0 => svg[e.at].fill = e.fill

C5_Witness ==
    /\ pc = "done"
    /\ LAT_BANDS = 4 /\ LONG_GORES = 6
    /\ \E e, f \in Entries :
          e.i = f.i /\ e.j = LONG_GORES - 1 /\ f.j = 0 /\ e.fill # f.fill
          /\ e.at \in Polygons /\ svg[e.at].fill = e.fill
    /\ \E e, f \in Entries : e.j = f.j /\ f.i = e.i + 1 /\ e.fill # f.fill
    /\ \E e, f \in Entries : e.i = f.i /\ f.j = e.j + 2 /\ e.fill = f.fill

-----------------------------------------------------------------------------
Rank(el) ==
    CASE el.kind = "svg" -> 0
      [] el.kind = "rect" -> 1
      [] el.kind = "g" -> 2
      [] el.kind = "polygon" -> 3
      [] el.kind = "/svg" -> 4

(* C6: the document always reads: svg opening, background rectangle, grid  *)
(* group, polygons, closing tag, in this order, each but the polygons at   *)
(* most once; once the layer statements are behind, the background is      *)
(* there iff DRAW_BACKGROUND and the grid iff DRAW_GRID; the returned      *)
(* document ends with the closing tag and is what main writes.             *)
C6_FixedOrder ==
    /\ svg # <<>> => svg[1].kind = "svg"
    /\ \A n \in 1..(Len(svg) - 1) :
          /\ Rank(svg[n]) <= Rank(svg[n + 1])
          /\ Rank(svg[n]) = Rank(svg[n + 1]) => svg[n].kind = "polygon"
    /\ AfterLayers =>
          /\ (\E n \in 1..Len(svg) : svg[n].kind = "rect") <=> DRAW_BACKGROUND
          /\ (\E n \in 1..Len(svg) : svg[n].kind = "g") <=> DRAW_GRID
    /\ Finished <=> (svg # <<>> /\ svg[Len(svg)].kind = "/svg")
    /\ file.written => file.content = svg

C6_Witness ==
    /\ pc = "done"
    /\ DRAW_BACKGROUND /\ DRAW_GRID
    /\ Len(svg) >= 6
    /\ svg[1].kind = "svg"
    /\ svg[2].kind = "rect"
    /\ svg[3].kind = "g"
    /\ svg[4].kind = "polygon"
    /\ svg[Len(svg)].kind = "/svg"
    /\ file.content = svg

-----------------------------------------------------------------------------
\* thousandths of a pixel of a length
Milli(x) == (x * 1000) \div Unit

(* C7: a grid group in the document has one rectangle spanning (x0, y0) to *)
(* (x0 + W*cw, y0 + H*ch), then W-1 vertical lines at x0 + c*cw from y0 to *)
(* y0 + H*ch, then H-1 horizontal lines at y0 + r*ch from x0 to x0 + W*cw, *)
(* and nothing else; it is a function of the grid parameters alone.        *)
C7_GridLines ==
    \A n \in 1..Len(svg) :
        svg[n].kind = "g" =>
            LET g == svg[n]
                W == GRID_CELLS_W
                H == GRID_CELLS_H
                left == Milli(GRID_ORIGIN_X)
                top == Milli(GRID_ORIGIN_Y)
                right == Milli(GRID_ORIGIN_X) + W * Milli(GRID_CELL_W)
                bottom == Milli(GRID_ORIGIN_Y) + H * Milli(GRID_CELL_H)
            IN  /\ g.rect.x = left /\ g.rect.y = top
                /\ g.rect.x + g.rect.width = right
                /\ g.rect.y + g.rect.height = bottom
                /\ Len(g.lines) = (W - 1) + (H - 1)
                /\ \A c \in 1..(W - 1) :
                      /\ g.lines[c].x1 = left + c * Milli(GRID_CELL_W)
                      /\ g.lines[c].x2 = g.lines[c].x1
                      /\ g.lines[c].y1 = top
                      /\ g.lines[c].y2 = bottom
                /\ \A r \in 1..(H - 1) :
                      /\ g.lines[W - 1 + r].y1 = top + r * Milli(GRID_CELL_H)
                      /\ g.lines[W - 1 + r].y2 = g.lines[W - 1 + r].y1
                      /\ g.lines[W - 1 + r].x1 = left
                      /\ g.lines[W - 1 + r].x2 = right

\* 10 by 10 cells of 50 by 50 at (0, 0): 9 + 9 lines, rectangle to (500, 500)
C7_Witness ==
    /\ GRID_CELLS_W = 10 /\ GRID_CELLS_H = 10
    /\ Milli(GRID_CELL_W) = 50000 /\ Milli(GRID_CELL_H) = 50000
    /\ GRID_ORIGIN_X = 0 /\ GRID_ORIGIN_Y = 0
    /\ SPIN_DEG = 30
    /\ pc = "done"
    /\ \E n \in 1..Len(svg) :
          /\ svg[n].kind = "g"
          /\ svg[n].rect = [x |-> 0, y |-> 0, width |-> 500000, height |-> 500000]
          /\ Len(svg[n].lines) = 18
          /\ Cardinality({m \in 1..18 : svg[n].lines[m].x1 = svg[n].lines[m].x2}) = 9
          /\ Cardinality({m \in 1..18 : svg[n].lines[m].y1 = svg[n].lines[m].y2}) = 9

-----------------------------------------------------------------------------
\* the rotations as the claim writes them, c and s the cosine and sine
RotZ(p, c, s) == <<FMul(c, p[1]) - FMul(s, p[2]), FMul(s, p[1]) + FMul(c, p[2]), p[3]>>
RotY(p, c, s) == <<FMul(c, p[1]) + FMul(s, p[3]), p[2], FMul(-s, p[1]) + FMul(c, p[3])>>

SpinThenTilt(p) ==
    RotY(RotZ(p, Cos(SPIN_DEG), Sin(SPIN_DEG)), Cos(TILT_DEG), Sin(TILT_DEG))

TiltThenSpin(p) ==
    RotZ(RotY(p, Cos(TILT_DEG), Sin(TILT_DEG)), Cos(SPIN_DEG), Sin(SPIN_DEG))

(* C8: every vertex of every tested triangle is the sphere point turned by *)
(* the spin about Z first and by the tilt about Y second.                  *)
C8_SpinThenTilt ==
    \A e \in Entries : \A n \in 1..3 : e.w[n] = SpinThenTilt(e.v[n])

\* spin = tilt = 90 on (r, 0, 0): spin-then-tilt gives (0, r, 0), the code's
\* result; tilt-then-spin gives (0, 0, -r)
C8_Witness ==
    /\ SPIN_DEG = 90 /\ TILT_DEG = 90
    /\ \E e \in Entries : \E n \in 1..3 :
          /\ e.v[n] = <<RADIUS, 0, 0>>
          /\ e.w[n] = <<0, RADIUS, 0>>
          /\ TiltThenSpin(e.v[n]) = <<0, 0, -RADIUS>>
          /\ TiltThenSpin(e.v[n]) # e.w[n]

-----------------------------------------------------------------------------
(* C9: the normal of every tested triangle is the standard cross product   *)
(* of its edge vectors b - a and c - a, and is orthogonal to both.         *)
C9_CrossIsStandard ==
    \A e \in Entries :
        /\ e.n = StdCross(Edge1(e), Edge2(e))
        /\ Inner(e.n, Edge1(e)) = 0
        /\ Inner(e.n, Edge2(e)) = 0

(* C10: a tested triangle is emitted iff the standard cross product of its *)
(* edges has a negative dot product with (0,-1,0), that is, iff            *)
(* az'*bx' - ax'*bz' > 0 for the edges a' = b - a and b' = c - a: the      *)
(* decision of the code's cross is the decision of the standard one.       *)
C10_SameDecisionAsStandard ==
    \A e \in Entries :
        /\ (e.at # 0) <=> Inner(StdCross(Edge1(e), Edge2(e)), <<0, -1, 0>>) < 0
        /\ (e.at # 0) <=> Edge1(e)[3] * Edge2(e)[1] - Edge1(e)[1] * Edge2(e)[3] > 0
        /\ e.n[2] = StdCross(Edge1(e), Edge2(e))[2]

\* a triangle whose code normal differs from the standard one, decided alike
C10_Witness ==
    /\ \E e \in Entries :
          /\ e.n # StdCross(Edge1(e), Edge2(e))
          /\ e.at \in Polygons
          /\ Inner(StdCross(Edge1(e), Edge2(e)), <<0, -1, 0>>) < 0
    /\ \E e \in Entries :
          /\ e.n # StdCross(Edge1(e), Edge2(e))
          /\ e.at = 0
          /\ Inner(StdCross(Edge1(e), Edge2(e)), <<0, -1, 0>>) > 0

=============================================================================
